---- MODULE Spec2Model ----
(***************************************************************************)
(* Model of the satellite worker (src/satellite-worker): the request       *)
(* boundary app.process, AWSNDVIProcessor.process_parcel_ndvi with its     *)
(* date-range parsing, catalog search and scene selection,                 *)
(* AWSNDVIProcessor.calculate_ndvi_from_s3 with its band reads, SWIR       *)
(* alignment, masking and statistics, and the min-size upscaling of        *)
(* image_generator.generate_index_image.                                   *)
(*                                                                         *)
(* Times are integer seconds since the epoch; a date is the midnight that  *)
(* starts its day.  Cloud cover is an integer percentage.  The balanced    *)
(* selection score is kept exact by scaling it with 10 * 86400.            *)
(***************************************************************************)
EXTENDS Integers, Sequences, FiniteSets, TLC

VARIABLES
    mock_mode,        \* AWSNDVIProcessor.mock_mode
    selection_mode,   \* os.getenv('SCENE_SELECTION_MODE', 'least_cloud')
    search_days,      \* int(os.getenv('SCENE_SEARCH_DAYS', '30'))
    pc,               \* position of the request in the call chain
    bbox,             \* request.json['bbox']: TRUE when a geometry is given
    date_range,       \* request.json['date_range'], split at the commas
    now,              \* the value datetime.now() returns during the request
    start_date,       \* local of process_parcel_ndvi
    end_date,         \* local of process_parcel_ndvi
    default_days,     \* local of process_parcel_ndvi
    search_outcome,   \* search_sentinel2_stac: None before it, "items" or "raised"
    items,            \* local of process_parcel_ndvi: the search result
    best_item,        \* local of process_parcel_ndvi: the selected scene
    bands,            \* the band windows read by calculate_ndvi_from_s3
    low_res_mask,     \* pixels the native polygon mask marks as outside
    calc_error,       \* exception caught at calculate_ndvi_from_s3's except
    ndvi_stats,       \* what calculate_ndvi_from_s3 returned
    result,           \* what process_parcel_ndvi returned
    error,            \* exception propagating out of process_parcel_ndvi
    response,         \* what app.process returned: [code, body]
    img,              \* generate_index_image: size in, scale factor, size out
    upscale_factor,   \* int(os.getenv('NDVI_UPSCALE_FACTOR', '3'))
    polygon,          \* the parcel polygon in the raster's coordinates
    grids,            \* calculate_ndvi_from_s3: index grids, masks, transforms
    overlay,          \* generate_index_image: the array in and the RGBA image
    handles,          \* the bands whose dataset rasterio.open holds open
    reads             \* per band, the calls of read(1, window=...) so far

vars == <<mock_mode, selection_mode, search_days, pc, bbox, date_range, now,
          start_date, end_date, default_days, search_outcome, items, best_item,
          bands, low_res_mask, calc_error, ndvi_stats, result, error, response,
          img, upscale_factor, polygon, grids, overlay, handles, reads>>

datasets == <<handles, reads>>
raster == <<upscale_factor, polygon, grids, overlay, datasets>>
config == <<mock_mode, selection_mode, search_days>>
request == <<bbox, date_range, now>>
window == <<start_date, end_date, default_days>>
calc == <<bands, low_res_mask, calc_error, ndvi_stats>>

\* ------------------------------------------------------------------ bounds

MaxItems == 2          \* longest catalog result of the request pipeline
MaxSelectItems == 3    \* longest candidate sequence of the selection check
MaxCloud == 1          \* largest cloud-cover percentage of a candidate
MaxSteps == 3          \* candidates are acquired at steps 0..MaxSteps of 18 hours
MaxRows == 2           \* most rows of a 10 m band window
MaxCols == 2           \* most columns of a 10 m band window
MaxDim == 110          \* largest width and height handed to the renderer

\* --------------------------------------------------------------- constants

SecondsPerDay == 86400
SearchDaysDefault == 30
CloudDefaultKey == 100
CloudDefaultReport == 0
MinImageSize == 100
MinScale == 2
UpscaleFactorDefault == 3

\* A value no local holds once assigned; reading it raises UnboundLocalError.
Unbound == "unbound"
None == "None"

\* ------------------------------------------------------------ scene records

\* A STAC item: id, properties['datetime'] as a timestamp, and
\* properties['eo:cloud_cover'], which a record may lack.
Scene(i, t, h, c) == [id |-> i, datetime |-> t, has_cloud |-> h, cloud |-> c]

\* The spacing of acquisition times: 18 hours.
AcquisitionStep == (3 * SecondsPerDay) \div 4

\* x.properties.get('eo:cloud_cover', default)
CloudGet(x, default) == IF x.has_cloud THEN x.cloud ELSE default

\* datetime.fromisoformat(x.properties['datetime']...).timestamp()
Timestamp(x) == x.datetime

\* Python's order on 2-tuples of numbers.
TupleLess(a, b) == \/ a[1] < b[1]
                   \/ a[1] = b[1] /\ a[2] < b[2]

\* Ties on cloud cover broken towards the oldest scene.
LeastCloudKeyOldest(x) == <<CloudGet(x, CloudDefaultKey), Timestamp(x)>>

LeastCloudKey(x) == <<CloudGet(x, CloudDefaultKey), -Timestamp(x)>>

\* Ties on the timestamp broken towards the cloudiest scene.
MostRecentKeyCloudiest(x) == <<-Timestamp(x), -CloudGet(x, CloudDefaultKey)>>

MostRecentKey(x) == <<-Timestamp(x), CloudGet(x, CloudDefaultKey)>>

CloudWeight == 6
RecencyWeight == 4

\* The recency term added instead of subtracted.
BalancedKeyOldest(x) ==
    CloudWeight * SecondsPerDay * CloudGet(x, CloudDefaultKey)
        + RecencyWeight * Timestamp(x)

\* The two weights exchanged.
BalancedKeySwapped(x) ==
    RecencyWeight * SecondsPerDay * CloudGet(x, CloudDefaultKey)
        - CloudWeight * Timestamp(x)

\* cloud * 0.6 + (-timestamp / 86400 * 0.4), times 10 * 86400.
BalancedKey(x) ==
    CloudWeight * SecondsPerDay * CloudGet(x, CloudDefaultKey)
        - RecencyWeight * Timestamp(x)

\* key(a) < key(b) under the key function the mode selects.
KeyLess(mode, a, b) ==
    IF mode = "most_recent" THEN TupleLess(MostRecentKey(a), MostRecentKey(b))
    ELSE IF mode = "balanced" THEN BalancedKey(a) < BalancedKey(b)
    ELSE TupleLess(LeastCloudKey(a), LeastCloudKey(b))

\* min(items, key=...): the running minimum is replaced only by a strictly
\* smaller key, so the first of several minimal elements is returned.
RECURSIVE MinFrom(_, _, _, _)
MinFrom(mode, s, i, best) ==
    IF i > Len(s) THEN best
    ELSE MinFrom(mode, s, i + 1, IF KeyLess(mode, s[i], best) THEN s[i] ELSE best)

SelectBest(mode, s) == MinFrom(mode, s, 2, s[1])

\* ------------------------------------------------------------------- dates

\* One comma-separated part of the date-range string: a well-formed
\* YYYY-MM-DD naming day number `day`, or text strptime rejects.
DatePart(o, d) == [ok |-> o, day |-> d]

\* The noon of the day instead of its midnight.
StrptimeNoon(part) == part.day * SecondsPerDay + SecondsPerDay \div 2

\* datetime.strptime(part.strip(), '%Y-%m-%d'), defined on well-formed parts.
Strptime(part) == part.day * SecondsPerDay

\* t.strftime('%Y-%m-%d'): the day the time falls in.
Strftime(t) == t \div SecondsPerDay

\* end_date - timedelta(days=d)
MinusDays(t, d) == t - d * SecondsPerDay

\* ------------------------------------------------------------- band windows

Bands == <<"blue", "green", "red", "nir", "swir">>
BandNames == {Bands[k] : k \in 1..Len(Bands)}

Pixels(shape) == (1..shape[1]) \X (1..shape[2])

\* A masked window as src.read(1, window=window, masked=True) returns it:
\* its shape, the nodata pixels (mask True) and the pixel data.
Grid(shape, mask, data) == [shape |-> shape, mask |-> mask, data |-> data]

Uniform(shape, v) == [p \in Pixels(shape) |-> v]

\* swir.filled(0)
Filled(g, v) == [p \in Pixels(g.shape) |-> IF p \in g.mask THEN v ELSE g.data[p]]

\* The input index below the sampling position instead of the nearest one.
ZoomIndexFloor(o, n_in, n_out) ==
    IF n_out <= 1 THEN 1
    ELSE (((o - 1) * (n_in - 1)) \div (n_out - 1)) + 1

\* scipy.ndimage.zoom(a, factor, order=0) along one axis: output index o
\* (from 1) of n_out reads the input index nearest to (o-1)*(n_in-1)/(n_out-1),
\* halves rounded up; a single output pixel reads the first input pixel.
ZoomIndex(o, n_in, n_out) ==
    IF n_out <= 1 THEN 1
    ELSE ((2 * (o - 1) * (n_in - 1) + (n_out - 1)) \div (2 * (n_out - 1))) + 1

\* zoom(swir.filled(0), (red.shape[0]/swir.shape[0], red.shape[1]/swir.shape[1]),
\* order=0) wrapped with mask=red.mask; both swir dimensions are non-zero.
ResampleSwir(swir, red) ==
    Grid(red.shape, red.mask,
         [p \in Pixels(red.shape) |->
            Filled(swir, 0)[<<ZoomIndex(p[1], swir.shape[1], red.shape[1]),
                              ZoomIndex(p[2], swir.shape[2], red.shape[2])>>]])

\* The division red.shape[k] / swir.shape[k] raises ZeroDivisionError.
SwirScaleRaises(swir) == swir.shape[1] = 0 \/ swir.shape[2] = 0

\* ----------------------------------------------------------------- indices

\* Index values are kept in fixed point, FixedPoint units to 1.
FixedPoint == 10000

\* (a - b) / (a + b + eps): finite for every a, b >= 0, and 0 when a = b = 0.
NormDiff(a, b) == IF a + b = 0 THEN 0 ELSE ((a - b) * FixedPoint) \div (a + b)

\* ndvi = (nir - red) / (nir + red + eps) on masked arrays: the result is
\* masked where either operand is.
NdviGrid(nir, red) ==
    Grid(red.shape, nir.mask \cup red.mask,
         [p \in Pixels(red.shape) |-> NormDiff(nir.data[p], red.data[p])])

\* The masks ndwi, ndmi and evi take from their operands.
NdwiMask(b) == b["green"].mask \cup b["nir"].mask
NdmiMask(b, swir10) == b["nir"].mask \cup swir10.mask
EviMask(b) == b["nir"].mask \cup b["red"].mask \cup b["blue"].mask

\* -------------------------------------------------------------- statistics

RECURSIVE SumOver(_, _)
SumOver(f, S) ==
    IF S = {} THEN 0
    ELSE LET p == CHOOSE q \in S : TRUE IN f[p] + SumOver(f, S \ {p})

Isqrt(n) == CHOOSE r \in 0..n : r * r <= n /\ (r + 1) * (r + 1) > n

Mean(f, S) == SumOver(f, S) \div Cardinality(S)

\* np.std: the population standard deviation.
Std(f, S) ==
    LET m == Mean(f, S)
        sq == [p \in S |-> (f[p] - m) * (f[p] - m)]
    IN Isqrt(SumOver(sq, S) \div Cardinality(S))

MinOver(f, S) == CHOOSE v \in {f[p] : p \in S} : \A q \in S : v <= f[q]
MaxOver(f, S) == CHOOSE v \in {f[p] : p \in S} : \A q \in S : v >= f[q]

Stats(mean, std, lo, hi, count, image) ==
    [ndvi_mean |-> mean, ndvi_std |-> std, ndvi_min |-> lo, ndvi_max |-> hi,
     pixels_count |-> count, ndvi_image |-> image]

\* _mock_ndvi(): 0.68, 0.12, 0.35, 0.85 and 15000 pixels, no image key.
MockMean == (68 * FixedPoint) \div 100
MockStd == (12 * FixedPoint) \div 100
MockMin == (35 * FixedPoint) \div 100
MockMax == (85 * FixedPoint) \div 100
MockCount == 15000
\* Zeroed statistics in place of the placeholder ones.
MockNdviZeroed == Stats(0, 0, 0, 0, 0, None)

MockNdvi == Stats(MockMean, MockStd, MockMin, MockMax, MockCount, None)

\* The placeholder statistics in place of the zeroed ones.
ZeroStatsPlaceholder == Stats(MockMean, MockStd, MockMin, MockMax, MockCount, None)

\* The return of the "No valid NDVI values after masking" branch.
ZeroStats == Stats(0, 0, 0, 0, 0, None)

\* ndvi[~ndvi.mask] after idx_array.mask |= low_res_mask; every value is finite.
ValidPixels(shape, mask, low) == Pixels(shape) \ (mask \cup low)

\* The statistics of the return at the end of calculate_ndvi_from_s3.
ComputedStats(ndvi, valid) ==
    Stats(Mean(ndvi.data, valid), Std(ndvi.data, valid),
          MinOver(ndvi.data, valid), MaxOver(ndvi.data, valid),
          Cardinality(valid), "png")

\* ------------------------------------------------------------------ inputs

SelectionModes == {"least_cloud", "most_recent", "balanced", "fastest"}

\* SCENE_SEARCH_DAYS is left at its default.
SearchDaysChoices == {SearchDaysDefault}

\* The clock reading of a request: later than every candidate's acquisition.
NowChoices == {(MaxSteps + 1) * AcquisitionStep + 3600}

FirstParts == {DatePart(TRUE, 1), DatePart(FALSE, 0)}
SecondParts == {DatePart(TRUE, 2), DatePart(FALSE, 0)}

\* Absent (or empty), "D1" and "D1,D2", each part well-formed or not.
DateRanges ==
    {<<>>} \cup {<<p>> : p \in FirstParts}
           \cup {<<p, q>> : p \in FirstParts, q \in SecondParts}

\* The scenes the catalog of the request pipeline holds.
CatalogScenes ==
    {Scene(1, 0, TRUE, MaxCloud), Scene(2, MaxSteps * AcquisitionStep, FALSE, 0)}

SeqsUpTo(S, n) == UNION {[1..k -> S] : k \in 0..n}

\* A search result lists a scene once.
CatalogResults ==
    {s \in SeqsUpTo(CatalogScenes, MaxItems) :
        \A i, j \in 1..Len(s) : s[i] = s[j] => i = j}

\* Candidate sequences of the selection check: the i-th scene has id i, a
\* cloud cover in 0..MaxCloud or none, and an acquisition time on the steps.
CandidateFields ==
    {<<h, c, d>> \in BOOLEAN \X (0..MaxCloud) \X (0..MaxSteps) : h \/ c = 0}

SelectCandidates ==
    {[i \in 1..Len(f) |-> Scene(i, f[i][3] * AcquisitionStep, f[i][1], f[i][2])] :
        f \in SeqsUpTo(CandidateFields, MaxSelectItems) \ {<<>>}}

WindowShapes == (0..MaxRows) \X (0..MaxCols)

\* The 20 m window over the same bounds: as many pixels, or half as many.
SwirShapes(shape) == {shape, <<(shape[1] + 1) \div 2, (shape[2] + 1) \div 2>>}

\* Nodata of a band window: none, all of it, or its first pixel.
FullMasks(shape) == {{}, Pixels(shape)}
PartMasks(shape) == FullMasks(shape) \cup {Pixels(shape) \cap {<<1, 1>>}}

\* Pixels whose centre is outside the polygon: none, all, or the first column.
PolygonMasks(shape) ==
    {{}, Pixels(shape), {p \in Pixels(shape) : p[2] = 1}}

\* Pixel values of the synthetic scene.
BlueLevel == 50
GreenLevel == 80
RedLevel == 100
NirLevel == 200
SwirLevel == 150
Level(b) ==
    CASE b = "blue" -> BlueLevel [] b = "green" -> GreenLevel
      [] b = "red" -> RedLevel [] b = "nir" -> NirLevel [] OTHER -> SwirLevel

BandWindow(b, shape, mask) == Grid(shape, mask, Uniform(shape, Level(b)))

\* ---------------------------------------------------------------- payloads

NoStats == Stats(0, 0, 0, 0, 0, None)

Payload(status, message, has_stats, stats, scene_id, cloud_cover, product_date) ==
    [status |-> status, message |-> message, has_stats |-> has_stats,
     stats |-> stats, scene_id |-> scene_id, cloud_cover |-> cloud_cover,
     product_date |-> product_date]

ErrorPayload(message) == Payload("error", message, FALSE, NoStats, 0, 0, 0)

\* The return of `if not items:` in process_parcel_ndvi.
NoImageryFound == ErrorPayload("No Sentinel-2 imagery found")

\* _mock_process(): the simulated payload, cloud cover 15.2 in whole percent.
MockCloud == 15
MockAgeDays == 7
MockProcess(t) ==
    Payload("success", "NDVI processed (MOCK MODE)", TRUE, MockNdvi,
            0, MockCloud, Strftime(MinusDays(t, MockAgeDays)))

\* result = {"status": "success", **ndvi_stats, "product_date": ...,
\* "cloud_cover": best_item.properties.get('eo:cloud_cover', 0), ...}
SuccessPayload(stats, best) ==
    Payload("success", "NDVI calculated from AWS Sentinel-2 Open Data", TRUE,
            stats, best.id, CloudGet(best, CloudDefaultReport),
            Strftime(Timestamp(best)))

Response(code, body) == [code |-> code, body |-> body]
NoResponse == Response(0, ErrorPayload(None))
NoResult == ErrorPayload(None)
NoScene == Scene(0, 0, FALSE, 0)

\* generate_index_image's sizes: the array's width and height, the scale
\* factor applied (1 when the image is not resized), the size of the encoded
\* image, and what is returned ("png" for the data URL, None after an error).
Image(w, h, f, nw, nh, out) ==
    [width |-> w, height |-> h, scale_factor |-> f, new_width |-> nw,
     new_height |-> nh, image |-> out]
NoImage == Image(0, 0, 0, 0, 0, None)

\* ------------------------------------------------------------ colour ramps

\* int(x) of the quotient n / d, d > 0: truncation towards zero.
Trunc(n, d) == IF n >= 0 THEN n \div d ELSE -((-n) \div d)

Min(a, b) == IF a <= b THEN a ELSE b
Max(a, b) == IF a >= b THEN a ELSE b

\* The literal k / 10 of the colour ramps, in fixed point.
Tenths(k) == (k * FixedPoint) \div 10

\* The three branches of _vegetation_color, numbered in source order.
VegetationBranch(k, val) ==
    CASE k = 1 ->
           <<255, Trunc(255 * (val + FixedPoint), FixedPoint + Tenths(3)), 0, 255>>
      [] k = 2 ->
           <<Trunc(255 * (Tenths(3) - (val - Tenths(3))), Tenths(3)), 255, 0, 255>>
      [] OTHER ->
           <<0, Min(255, Trunc(1000 * FixedPoint + (val - Tenths(6)) * 3875,
                               10 * FixedPoint)), 0, 255>>

\* _vegetation_color(val)
VegetationColor(val) ==
    VegetationBranch(IF val < Tenths(3) THEN 1 ELSE IF val < Tenths(6) THEN 2 ELSE 3,
                     val)

\* The four branches of _water_color.
WaterBranch(k, val) ==
    CASE k = 1 -> <<255, Trunc(255 * (val + FixedPoint), FixedPoint), 0, 255>>
      [] k = 2 -> <<Trunc(255 * (Tenths(2) - val), Tenths(2)), 255,
                    Trunc(255 * val, Tenths(2)), 255>>
      [] k = 3 -> <<0, Trunc(255 * (Tenths(2) - (val - Tenths(2))), Tenths(2)),
                    255, 255>>
      [] OTHER ->
           <<0, 0,
             Min(255, Max(100, Trunc(255 * (Tenths(6) - (val - Tenths(4))),
                                     Tenths(6))) + 50),
             255>>

\* _water_color(val)
WaterColor(val) ==
    WaterBranch(IF val < 0 THEN 1 ELSE IF val < Tenths(2) THEN 2
                ELSE IF val < Tenths(4) THEN 3 ELSE 4, val)

\* The third branch starting from blue 100 instead of 128.
MoistureBranchDim(k, val) ==
    CASE k = 1 -> <<165 + Trunc(90 * (val + FixedPoint), FixedPoint),
                    Trunc(100 * FixedPoint + 155 * (val + FixedPoint), FixedPoint),
                    42, 255>>
      [] k = 2 -> <<Trunc(255 * (Tenths(3) - val), Tenths(3)), 255,
                    Trunc(128 * val, Tenths(3)), 255>>
      [] k = 3 -> <<0, 255,
                    Trunc(100 * Tenths(2) + 127 * (val - Tenths(3)), Tenths(2)),
                    255>>
      [] OTHER -> <<0, Trunc(255 * (Tenths(5) - (val - Tenths(5))), Tenths(5)),
                    255, 255>>

\* The four branches of _moisture_color.
MoistureBranch(k, val) ==
    CASE k = 1 -> <<165 + Trunc(90 * (val + FixedPoint), FixedPoint),
                    Trunc(100 * FixedPoint + 155 * (val + FixedPoint), FixedPoint),
                    42, 255>>
      [] k = 2 -> <<Trunc(255 * (Tenths(3) - val), Tenths(3)), 255,
                    Trunc(128 * val, Tenths(3)), 255>>
      [] k = 3 -> <<0, 255,
                    Trunc(128 * Tenths(2) + 127 * (val - Tenths(3)), Tenths(2)),
                    255>>
      [] OTHER -> <<0, Trunc(255 * (Tenths(5) - (val - Tenths(5))), Tenths(5)),
                    255, 255>>

\* _moisture_color(val)
MoistureColor(val) ==
    MoistureBranch(IF val < 0 THEN 1 ELSE IF val < Tenths(3) THEN 2
                   ELSE IF val < Tenths(5) THEN 3 ELSE 4, val)

\* The ramp generate_index_image picks for an index type; an array element
\* no branch assigns keeps the zeros rgba_image was created with.
\* Masked pixels black but opaque.
TransparentOpaque == <<0, 0, 0, 255>>

Transparent == <<0, 0, 0, 0>>
IndexColor(index_type, val) ==
    IF index_type \in {"ndvi", "evi", "savi"} THEN VegetationColor(val)
    ELSE IF index_type = "ndwi" THEN WaterColor(val)
    ELSE IF index_type = "ndmi" THEN MoistureColor(val)
    ELSE Transparent

\* generate_index_image: the masked array handed in, the RGBA array built
\* from it, the factor of the NEAREST resize and what is returned.
Overlay(index_type, array, rgba, scale_factor, image) ==
    [index_type |-> index_type, array |-> array, rgba |-> rgba,
     scale_factor |-> scale_factor, image |-> image]

EmptyGrid == Grid(<<0, 0>>, {}, Uniform(<<0, 0>>, 0))
NoOverlay == Overlay(None, EmptyGrid, Uniform(<<0, 0>>, Transparent), 0, None)

\* ------------------------------------------------------- index denominators

\* A denominator of an index formula: twice the part made of band values and
\* literals (band values are whole numbers, the literals multiples of 0.5),
\* and whether eps = 1e-8 is added to it.
Den(twice, eps) == [twice |-> twice, eps |-> eps]

\* The denominator is exactly 0.0: eps cannot cancel a multiple of 0.5.
DenIsZero(d) == d.twice = 0 /\ ~d.eps

\* The band values of one pixel: v.blue, v.green, v.red, v.nir and v.swir,
\* the last taken from the resampled SWIR grid.
PixelValues(b, swir10, p) ==
    [blue |-> b["blue"].data[p], green |-> b["green"].data[p],
     red |-> b["red"].data[p], nir |-> b["nir"].data[p], swir |-> swir10.data[p]]

\* The index types calculate_ndvi_from_s3 renders.
IndexTypes == {"ndvi", "ndwi", "ndmi", "evi"}

IndexNames == {"ndvi", "ndwi", "ndmi", "evi", "savi"}

\* The denominators of lines 281-296:
\*   ndvi  nir + red + eps          ndwi  green + nir + eps
\*   ndmi  nir + swir + eps         evi   nir + 6*red - 7.5*blue + 1
\*   savi  nir + red + L, L = 0.5
IndexDen(name, v) ==
    CASE name = "ndvi" -> Den(2 * (v.nir + v.red), TRUE)
      [] name = "ndwi" -> Den(2 * (v.green + v.nir), TRUE)
      [] name = "ndmi" -> Den(2 * (v.nir + v.swir), TRUE)
      [] name = "evi" -> Den(2 * v.nir + 12 * v.red - 15 * v.blue + 2, FALSE)
      [] OTHER -> Den(2 * (v.nir + v.red) + 1, FALSE)

\* n / d in fixed point for d # 0, rounded towards zero.
Quotient(n, d) == IF d > 0 THEN Trunc(n * FixedPoint, d) ELSE Trunc(-n * FixedPoint, -d)

\* The value of an index at a pixel with a non-zero denominator:
\* evi = 2.5 * (nir - red) / den, savi = (nir - red) / den * 1.5.
IndexValue(name, v) ==
    CASE name = "ndvi" -> NormDiff(v.nir, v.red)
      [] name = "ndwi" -> NormDiff(v.green, v.nir)
      [] name = "ndmi" -> NormDiff(v.nir, v.swir)
      [] name = "evi" -> Quotient(5 * (v.nir - v.red), IndexDen("evi", v).twice)
      [] OTHER -> Quotient(3 * (v.nir - v.red), IndexDen("savi", v).twice)

\* Pixels where numpy's masked division masks the result because the
\* divisor is exactly zero.
ZeroDenominator(name, b, swir10) ==
    {p \in Pixels(b["red"].shape) : DenIsZero(IndexDen(name, PixelValues(b, swir10, p)))}

SaviMask(b) == b["nir"].mask \cup b["red"].mask

\* The mask of an index before polygon masking: the masks of its operands
\* and the pixels the division masks.
IndexMask(name, b, swir10) ==
    (CASE name = "ndvi" -> NdviGrid(b["nir"], b["red"]).mask
       [] name = "ndwi" -> NdwiMask(b)
       [] name = "ndmi" -> NdmiMask(b, swir10)
       [] name = "evi" -> EviMask(b)
       [] OTHER -> SaviMask(b))
    \cup ZeroDenominator(name, b, swir10)

\* The masked array of an index as lines 281-296 leave it.
IndexGrid(name, b, swir10) ==
    Grid(b["red"].shape, IndexMask(name, b, swir10),
         [p \in Pixels(b["red"].shape) |->
            IF p \in ZeroDenominator(name, b, swir10) THEN 0
            ELSE IndexValue(name, PixelValues(b, swir10, p))])

\* ---------------------------------------------------- upsampling and masks

MaxUpscale == 3        \* largest NDVI_UPSCALE_FACTOR

\* The least common multiple of 1..n.
RECURSIVE LcmUpTo(_)
LcmUpTo(n) ==
    IF n <= 1 THEN 1
    ELSE LET l == LcmUpTo(n - 1)
             k == CHOOSE j \in 1..n :
                    /\ (l * j) % n = 0
                    /\ \A i \in 1..(j - 1) : (l * i) % n # 0
         IN l * k

\* The side of a native pixel in coordinate units, chosen so that for every
\* factor up to MaxUpscale the centres of native and of upsampled pixels fall
\* on even coordinates.
PixelSize == 4 * LcmUpTo(MaxUpscale)

\* An affine transform without rotation: x = c + a * col, y = f + e * row.
Transform(c, f, a, e) == [c |-> c, f |-> f, a |-> a, e |-> e]

\* src.window_transform(window): a north-up raster, the window's upper left
\* corner at the origin of the coordinates.
WindowTransform == Transform(0, 0, PixelSize, -PixelSize)

\* window_transform * Affine.scale(1 / upscale_factor, 1 / upscale_factor)
ScaleTransform(t, factor) ==
    Transform(t.c, t.f, t.a \div factor, -((-t.e) \div factor))

\* The coordinates of the centre of pixel p = <<row, col>> (from 1).
PixelCentre(t, p) ==
    <<t.c + t.a * (p[2] - 1) + t.a \div 2,
      t.f + t.e * (p[1] - 1) - ((-t.e) \div 2)>>

\* The parcel polygon in the raster's coordinates: the interior of the
\* rectangle x1 < x < x2, y1 < y < y2.
Rect(x1, x2, y1, y2) == [x1 |-> x1, x2 |-> x2, y1 |-> y1, y2 |-> y2]
Contains(poly, pt) ==
    /\ poly.x1 < pt[1] /\ pt[1] < poly.x2
    /\ poly.y1 < pt[2] /\ pt[2] < poly.y2
NoPolygon == Rect(0, 0, 0, 0)

\* A pixel classified by its upper left corner instead of its centre.
GeometryMaskCorner(poly, shape, t) ==
    {p \in Pixels(shape) :
        ~Contains(poly, <<t.c + t.a * (p[2] - 1), t.f + t.e * (p[1] - 1)>>)}

\* geometry_mask([geom], out_shape, transform, invert=False): True (here: in
\* the set) for the pixels whose centre is outside the polygon.
GeometryMask(poly, shape, t) ==
    {p \in Pixels(shape) : ~Contains(poly, PixelCentre(t, p))}

\* The pixel of the native grid that pixel p of the upsampled grid repeats.
NativeOf(p, factor) == <<((p[1] - 1) \div factor) + 1, ((p[2] - 1) \div factor) + 1>>

\* The grid tiled (np.tile) instead of its pixels repeated.
RepeatTiled(g, factor) ==
    LET shape == <<factor * g.shape[1], factor * g.shape[2]>>
        tile(p) == <<((p[1] - 1) % g.shape[1]) + 1, ((p[2] - 1) % g.shape[2]) + 1>>
    IN Grid(shape,
            {p \in Pixels(shape) : tile(p) \in g.mask},
            [p \in Pixels(shape) |-> g.data[tile(p)]])

\* np.repeat(np.repeat(a, factor, axis=0), factor, axis=1) on a masked
\* array: data and mask are repeated alike.
Repeat(g, factor) ==
    LET shape == <<factor * g.shape[1], factor * g.shape[2]>>
    IN Grid(shape,
            {p \in Pixels(shape) : NativeOf(p, factor) \in g.mask},
            [p \in Pixels(shape) |-> g.data[NativeOf(p, factor)]])

\* np.ma.masked_array(a, mask=m) with the default keep_mask=True: the mask of
\* the masked array a is kept and m is or-ed to it.
MaskedArray(g, m) == Grid(g.shape, g.mask \cup m, g.data)

\* The locals of calculate_ndvi_from_s3 from the SWIR alignment to the
\* masking of the native grids.
Grids(swir, index, new_shape, new_transform, polygon_mask, final_mask, high, low) ==
    [swir |-> swir, index |-> index, new_shape |-> new_shape,
     new_transform |-> new_transform, polygon_mask |-> polygon_mask,
     final_mask |-> final_mask, high |-> high, low |-> low]

NoGrids ==
    Grids(EmptyGrid, <<>>, <<0, 0>>, WindowTransform, {}, {}, <<>>, <<>>)

\* Lines 270-355 for the band windows b, the upsampling factor and the
\* polygon: the resampled SWIR, the five indices, the upsampled grids masked
\* by final_mask (built from ndvi.mask), and the native masks after the loop
\* that ors low_res_mask to them.
IndexGrids(b, factor, poly) ==
    LET swir10 == ResampleSwir(b["swir"], b["red"])
        index == [n \in IndexNames |-> IndexGrid(n, b, swir10)]
        new_shape == Repeat(index["ndvi"], factor).shape
        new_transform == ScaleTransform(WindowTransform, factor)
        polygon_mask == GeometryMask(poly, new_shape, new_transform)
        final_mask == Repeat(index["ndvi"], factor).mask \cup polygon_mask
        low == GeometryMask(poly, b["blue"].shape, WindowTransform)
    IN Grids(swir10, index, new_shape, new_transform, polygon_mask, final_mask,
             [n \in IndexTypes |-> MaskedArray(Repeat(index[n], factor), final_mask)],
             [n \in IndexNames |-> index[n].mask \cup low])

\* ---------------------------------------------------- calculate_ndvi_from_s3

\* get_stats(arr) returns None: no valid value is left in the index.
NoValid(shape, mask, low) == ValidPixels(shape, mask, low) = {}

\* The f-string of the "Indices calculated" print formats get_stats(ndwi),
\* get_stats(ndmi) and get_stats(evi) with :.3f, which raises TypeError on None.
FormatRaises(b, swir10, low) ==
    LET shape == b["red"].shape
    IN \/ NoValid(shape, NdwiMask(b), low)
       \/ NoValid(shape, NdmiMask(b, swir10), low)
       \/ NoValid(shape, IndexMask("evi", b, swir10), low)

\* The body of the try block once the five windows are read: <<exception
\* caught by the except clause (or None), the value returned>>.
Compute(b, low) ==
    IF SwirScaleRaises(b["swir"]) THEN <<"ZeroDivisionError", MockNdvi>>
    ELSE LET swir10 == ResampleSwir(b["swir"], b["red"])
             ndvi == NdviGrid(b["nir"], b["red"])
             valid == ValidPixels(ndvi.shape, ndvi.mask, low)
         IN IF valid = {} THEN <<None, ZeroStats>>
            ELSE IF FormatRaises(b, swir10, low) THEN <<"TypeError", MockNdvi>>
            ELSE <<None, ComputedStats(ndvi, valid)>>

\* No band has been read.
NoReads == [b \in BandNames |-> 0]

\* The bands read before band number k.
ReadBefore(k) == {Bands[j] : j \in 1..(k - 1)}

\* -------------------------------------------------------------------- Init

Init ==
    /\ mock_mode \in BOOLEAN
    /\ selection_mode \in SelectionModes
    /\ search_days \in SearchDaysChoices
    /\ pc = "idle"
    /\ bbox = FALSE
    /\ date_range = <<>>
    /\ now = 0
    /\ start_date = Unbound
    /\ end_date = Unbound
    /\ default_days = Unbound
    /\ search_outcome = None
    /\ items = <<>>
    /\ best_item = NoScene
    /\ bands = <<>>
    /\ low_res_mask = {}
    /\ calc_error = None
    /\ ndvi_stats = NoStats
    /\ result = NoResult
    /\ error = None
    /\ response = NoResponse
    /\ img = NoImage
    /\ upscale_factor = UpscaleFactorDefault
    /\ polygon = NoPolygon
    /\ grids = NoGrids
    /\ overlay = NoOverlay
    /\ handles = {}
    /\ reads = NoReads

\* ------------------------------------------------------------- app.process

\* POST /process arrives; a request without bbox is answered 400 at once.
Receive ==
    /\ pc = "idle"
    /\ \E b \in BOOLEAN, d \in DateRanges, t \in NowChoices :
        /\ bbox' = b
        /\ date_range' = d
        /\ now' = t
        /\ IF b
           THEN pc' = "process" /\ UNCHANGED response
           ELSE /\ pc' = "done"
                /\ response' = Response(400, ErrorPayload("Missing bbox parameter"))
    /\ UNCHANGED <<config, window, search_outcome, items, best_item, calc,
                   result, error, img, raster>>

\* jsonify(result), or the except clause's 500 with str(e).
Respond ==
    /\ pc = "respond"
    /\ response' = IF error = None THEN Response(200, result)
                   ELSE Response(500, ErrorPayload(error))
    /\ pc' = "done"
    /\ UNCHANGED <<config, request, window, search_outcome, items, best_item,
                   calc, result, error, img, raster>>

\* The request is over; the next one starts with fresh locals.
NextRequest ==
    /\ pc = "done"
    /\ pc' = "idle"
    /\ bbox' = FALSE
    /\ date_range' = <<>>
    /\ now' = 0
    /\ start_date' = Unbound
    /\ end_date' = Unbound
    /\ default_days' = Unbound
    /\ search_outcome' = None
    /\ items' = <<>>
    /\ best_item' = NoScene
    /\ bands' = <<>>
    /\ low_res_mask' = {}
    /\ calc_error' = None
    /\ ndvi_stats' = NoStats
    /\ result' = NoResult
    /\ error' = None
    /\ response' = NoResponse
    /\ UNCHANGED <<config, img, raster>>

\* ------------------------------------------------- process_parcel_ndvi

\* if self.mock_mode: return self._mock_process(geojson)
ProcessMock ==
    /\ pc = "process"
    /\ mock_mode
    /\ result' = MockProcess(now)
    /\ pc' = "respond"
    /\ UNCHANGED <<config, request, window, search_outcome, items, best_item,
                   calc, error, response, img, raster>>

\* strptime accepts the first part and, when there are several, the last.
Parses(d) == d[1].ok /\ (Len(d) > 1 => d[Len(d)].ok)

\* The date-range block.  Without a date range the window is the last
\* default_days days.  A range that parses sets start and end.  On ValueError
\* the handler sets end_date and then reads default_days, a local that only
\* the first branch assigns.
ParseDateRange ==
    /\ pc = "process"
    /\ ~mock_mode
    /\ IF date_range = <<>>
       THEN /\ end_date' = now
            /\ default_days' = search_days
            /\ start_date' = MinusDays(now, search_days)
            /\ pc' = "search"
            /\ UNCHANGED error
       ELSE IF Parses(date_range)
       THEN /\ start_date' = Strptime(date_range[1])
            /\ end_date' = IF Len(date_range) > 1
                           THEN Strptime(date_range[Len(date_range)])
                           ELSE now
            /\ pc' = "search"
            /\ UNCHANGED <<default_days, error>>
       ELSE /\ end_date' = now
            /\ UNCHANGED default_days
            /\ IF default_days = Unbound
               THEN /\ start_date' = IF date_range[1].ok
                                     THEN Strptime(date_range[1])
                                     ELSE start_date
                    /\ error' = "UnboundLocalError"
                    /\ pc' = "respond"
               ELSE /\ start_date' = MinusDays(now, default_days)
                    /\ pc' = "search"
                    /\ UNCHANGED error
    /\ UNCHANGED <<config, request, search_outcome, items, best_item, calc,
                   result, response, img, raster>>

\* A search whose exception is not caught but leaves process_parcel_ndvi.
SearchPropagates ==
    /\ pc = "search"
    /\ \E r \in CatalogResults, raised \in BOOLEAN :
        /\ search_outcome' = IF raised THEN "raised" ELSE "items"
        /\ items' = IF raised THEN <<>> ELSE r
        /\ error' = IF raised THEN "APIError" ELSE error
    /\ IF items' = <<>>
       THEN result' = NoImageryFound /\ pc' = "respond"
       ELSE pc' = "select" /\ UNCHANGED result
    /\ UNCHANGED <<config, request, window, best_item, calc, response, img, raster>>

\* search_sentinel2_stac: the catalog answers with a list of scenes, or the
\* search raises and the except clause returns [].  An empty list ends the
\* request with the no-imagery payload.
Search ==
    /\ pc = "search"
    /\ \E r \in CatalogResults, raised \in BOOLEAN :
        /\ search_outcome' = IF raised THEN "raised" ELSE "items"
        /\ items' = IF raised THEN <<>> ELSE r
    /\ IF items' = <<>>
       THEN result' = NoImageryFound /\ pc' = "respond"
       ELSE pc' = "select" /\ UNCHANGED result
    /\ UNCHANGED <<config, request, window, best_item, calc, error, response,
                   img, raster>>

\* best_item = min(items, key=...) under SCENE_SELECTION_MODE.
SelectScene ==
    /\ pc = "select"
    /\ best_item' = SelectBest(selection_mode, items)
    /\ pc' = "calculate"
    /\ UNCHANGED <<config, request, window, search_outcome, items, calc,
                   result, error, response, img, raster>>

\* calculate_ndvi_from_s3 when every band read returns its window.
CalculateRead ==
    /\ pc = "calculate"
    /\ \E sh \in WindowShapes :
       \E ss \in SwirShapes(sh), low \in PolygonMasks(sh),
          mb \in FullMasks(sh), mg \in FullMasks(sh), mr \in PartMasks(sh),
          mn \in FullMasks(sh) :
       \E ms \in FullMasks(ss) :
        LET m == [b \in BandNames |->
                    CASE b = "blue" -> mb [] b = "green" -> mg
                      [] b = "red" -> mr [] b = "nir" -> mn [] OTHER -> ms]
            w == [b \in BandNames |->
                    BandWindow(b, IF b = "swir" THEN ss ELSE sh, m[b])]
            out == IF mock_mode THEN <<None, MockNdvi>> ELSE Compute(w, low)
        IN /\ bands' = w
           /\ low_res_mask' = low
           /\ calc_error' = out[1]
           /\ ndvi_stats' = out[2]
    /\ pc' = "build"
    /\ UNCHANGED <<config, request, window, search_outcome, items, best_item,
                   result, error, response, img, raster>>

\* calculate_ndvi_from_s3 when opening or reading band number k raises: the
\* except clause logs the error and returns _mock_ndvi().
CalculateReadFails ==
    /\ pc = "calculate"
    /\ ~mock_mode
    /\ \E k \in 1..Len(Bands), sh \in WindowShapes :
        /\ bands' = [b \in ReadBefore(k) |->
                        BandWindow(b, sh, {})]
        /\ calc_error' = "RasterioIOError"
        /\ ndvi_stats' = MockNdvi
    /\ pc' = "build"
    /\ UNCHANGED <<config, request, window, search_outcome, items, best_item,
                   low_res_mask, result, error, response, img, raster>>

\* The success payload built around whatever calculate_ndvi_from_s3 returned.
BuildResult ==
    /\ pc = "build"
    /\ result' = SuccessPayload(ndvi_stats, best_item)
    /\ pc' = "respond"
    /\ UNCHANGED <<config, request, window, search_outcome, items, best_item,
                   calc, error, response, img, raster>>

Next ==
    \/ Receive
    \/ ProcessMock
    \/ ParseDateRange
    \/ Search
    \/ SelectScene
    \/ CalculateRead
    \/ CalculateReadFails
    \/ BuildResult
    \/ Respond
    \/ NextRequest

Spec == Init /\ [][Next]_vars

\* ------------------------------------------------------- scene selection

\* process_parcel_ndvi at its selection step, over every candidate sequence.
InitSelect ==
    /\ mock_mode = FALSE
    /\ selection_mode \in SelectionModes
    /\ search_days = SearchDaysDefault
    /\ pc = "select"
    /\ bbox = TRUE
    /\ date_range = <<>>
    /\ now \in NowChoices
    /\ end_date = now
    /\ start_date = MinusDays(now, search_days)
    /\ default_days = search_days
    /\ search_outcome = "items"
    /\ items \in SelectCandidates
    /\ best_item = NoScene
    /\ bands = <<>>
    /\ low_res_mask = {}
    /\ calc_error = None
    /\ ndvi_stats = NoStats
    /\ result = NoResult
    /\ error = None
    /\ response = NoResponse
    /\ img = NoImage
    /\ upscale_factor = UpscaleFactorDefault
    /\ polygon = NoPolygon
    /\ grids = NoGrids
    /\ overlay = NoOverlay
    /\ handles = {}
    /\ reads = NoReads

SpecSelect == InitSelect /\ [][SelectScene]_vars

\* ------------------------------------------------------ min-size upscaling

\* The factor rounded up, so that the smaller dimension reaches 100.
ScaleFactorCeil(w, h) ==
    Max(Max((MinImageSize + w - 1) \div w, (MinImageSize + h - 1) \div h), MinScale)

\* scale_factor = max(100 // width, 100 // height, 2)
ScaleFactor(w, h) == Max(Max(MinImageSize \div w, MinImageSize \div h), MinScale)

\* if width < 100 or height < 100
NeedsUpscale(w, h) == w < MinImageSize \/ h < MinImageSize

\* The sizing of generate_index_image (and generate_ndvi_image): an array
\* with a zero dimension raises inside the try block and None is returned.
Render ==
    /\ pc = "render"
    /\ img' = LET w == img.width
                  h == img.height
              IN IF w = 0 \/ h = 0 THEN Image(w, h, 0, 0, 0, None)
                 ELSE IF NeedsUpscale(w, h)
                 THEN Image(w, h, ScaleFactor(w, h), w * ScaleFactor(w, h),
                            h * ScaleFactor(w, h), "png")
                 ELSE Image(w, h, 1, w, h, "png")
    /\ pc' = "rendered"
    /\ UNCHANGED <<config, request, window, search_outcome, items, best_item,
                   calc, result, error, response, raster>>

InitRender ==
    /\ mock_mode = FALSE
    /\ selection_mode = "least_cloud"
    /\ search_days = SearchDaysDefault
    /\ pc = "render"
    /\ bbox = TRUE
    /\ date_range = <<>>
    /\ now = 0
    /\ start_date = Unbound
    /\ end_date = Unbound
    /\ default_days = Unbound
    /\ search_outcome = None
    /\ items = <<>>
    /\ best_item = NoScene
    /\ bands = <<>>
    /\ low_res_mask = {}
    /\ calc_error = None
    /\ ndvi_stats = NoStats
    /\ result = NoResult
    /\ error = None
    /\ response = NoResponse
    /\ \E w \in 0..MaxDim, h \in 0..MaxDim : img = Image(w, h, 0, 0, 0, None)
    /\ upscale_factor = UpscaleFactorDefault
    /\ polygon = NoPolygon
    /\ grids = NoGrids
    /\ overlay = NoOverlay
    /\ handles = {}
    /\ reads = NoReads

SpecRender == InitRender /\ [][Render]_vars

\* ---------------------------------------------------------- colour overlays

MaxOverlayCols == 2    \* most columns of an array handed to the renderer

\* Index values of the arrays rendered: the ends of [-1, 1] and the ramps'
\* breakpoints.
OverlayValues ==
    {-FixedPoint, FixedPoint} \cup {Tenths(k) : k \in {0, 2, 3, 4, 5, 6}}

\* One-row masked arrays of up to MaxOverlayCols columns.
OverlayArrays ==
    UNION {{Grid(<<1, c>>, m, d) :
                m \in SUBSET Pixels(<<1, c>>),
                d \in [Pixels(<<1, c>>) -> OverlayValues]} :
           c \in 0..MaxOverlayCols}

\* generate_index_image(index_array, index_type): valid pixels get the colour
\* of their ramp, masked ones [0, 0, 0, 0]; an image under 100 pixels wide or
\* A channel value outside 0..255 does not fit the uint8 image.
Overflows(c) == \E k \in DOMAIN c : c[k] \notin 0..255

\* rgba_image[i, j] = [r, g, b, a] into the uint8 image: each channel modulo
\* 256 where numpy casts the value.
Uint8(c) == [k \in DOMAIN c |-> c[k] % 256]

\* Storing a channel value outside 0..255 raises OverflowError or wraps it,
\* by the numpy in use; the except clause returns None.
\* inside the try block and None is returned.
GenerateIndexImage ==
    /\ pc = "overlay"
    /\ \E raises \in BOOLEAN :
        overlay' =
         LET a == overlay.array
             t == overlay.index_type
             height == a.shape[1]
             width == a.shape[2]
             colour == [p \in Pixels(a.shape) |->
                          IF p \notin a.mask THEN IndexColor(t, a.data[p])
                          ELSE Transparent]
             rgba == [p \in Pixels(a.shape) |-> Uint8(colour[p])]
         IN IF width = 0 \/ height = 0 THEN Overlay(t, a, rgba, 0, None)
            ELSE IF raises /\ \E p \in Pixels(a.shape) : Overflows(colour[p])
            THEN Overlay(t, a, rgba, 0, None)
            ELSE Overlay(t, a, rgba,
                         IF NeedsUpscale(width, height)
                         THEN ScaleFactor(width, height) ELSE 1,
                         "png")
    /\ pc' = "overlaid"
    /\ UNCHANGED <<config, request, window, search_outcome, items, best_item,
                   calc, result, error, response, img, upscale_factor, polygon,
                   grids, datasets>>

\* pil_image.resize(new_size, Image.NEAREST) by a whole factor: pixel (i, j)
\* of the resized image copies pixel ((i-1) div s + 1, (j-1) div s + 1).
ResizedPixel(o, i, j) ==
    o.rgba[<<((i - 1) \div o.scale_factor) + 1, ((j - 1) \div o.scale_factor) + 1>>]

InitOverlay ==
    /\ mock_mode = FALSE
    /\ selection_mode = "least_cloud"
    /\ search_days = SearchDaysDefault
    /\ pc = "overlay"
    /\ bbox = TRUE
    /\ date_range = <<>>
    /\ now = 0
    /\ start_date = Unbound
    /\ end_date = Unbound
    /\ default_days = Unbound
    /\ search_outcome = None
    /\ items = <<>>
    /\ best_item = NoScene
    /\ bands = <<>>
    /\ low_res_mask = {}
    /\ calc_error = None
    /\ ndvi_stats = NoStats
    /\ result = NoResult
    /\ error = None
    /\ response = NoResponse
    /\ img = NoImage
    /\ upscale_factor = UpscaleFactorDefault
    /\ polygon = NoPolygon
    /\ grids = NoGrids
    /\ \E t \in IndexTypes, a \in OverlayArrays :
        overlay = Overlay(t, a, Uniform(a.shape, Transparent), 0, None)
    /\ handles = {}
    /\ reads = NoReads

SpecOverlay == InitOverlay /\ [][GenerateIndexImage]_vars

\* ------------------------------------------------- index grids and masks

MaxGridRows == 2       \* most rows of a window of the mask check
MaxGridCols == 2       \* most columns of a window of the mask check
MaxIndexRows == 2      \* most rows of a window of the index check
MaxIndexCols == 4      \* most columns of a window of the index check
MaxLevel == 2          \* largest pixel value of a scene with equal bands

\* The number of pixel p in row-major order, from 0.
Position(p, shape) == (p[1] - 1) * shape[2] + (p[2] - 1)

\* A band window whose first pixel holds base and each next one step more.
ValueWindow(base, step, shape, mask) ==
    Grid(shape, mask, [p \in Pixels(shape) |-> base + step * Position(p, shape)])

\* The scenes read: the synthetic levels, uniform or growing by one from
\* pixel to pixel, and scenes whose five bands hold the same value everywhere.
Scenes ==
    {<<[b \in BandNames |-> Level(b)], s>> : s \in {0, 1}}
        \cup {<<[b \in BandNames |-> v], 0>> : v \in 0..MaxLevel}

\* Nodata of the five windows: none, or the first pixel of one band.
OneBandMasks == {[b \in BandNames |-> {}]}
    \cup {[b \in BandNames |-> IF b = c THEN {<<1, 1>>} ELSE {}] : c \in BandNames}

\* Nodata in no band, or at the first pixel of the red window.
RedMasks == {[b \in BandNames |-> IF b = "red" THEN m ELSE {}] : m \in {{}, {<<1, 1>>}}}

\* The five windows of a scene: SWIR with its own shape.
SceneWindows(scene, shape, swir_shape, masks) ==
    [b \in BandNames |->
        ValueWindow(scene[1][b], scene[2],
                    IF b = "swir" THEN swir_shape ELSE shape, masks[b])]

\* The x coordinates of the centres of the native and of the upsampled
\* pixels of a window, and the y coordinates.
CentresX(shape, factor) ==
    {PixelCentre(WindowTransform, <<1, j>>)[1] : j \in 1..shape[2]}
        \cup {PixelCentre(ScaleTransform(WindowTransform, factor), <<1, j>>)[1] :
                 j \in 1..(factor * shape[2])}
CentresY(shape, factor) ==
    {PixelCentre(WindowTransform, <<i, 1>>)[2] : i \in 1..shape[1]}
        \cup {PixelCentre(ScaleTransform(WindowTransform, factor), <<i, 1>>)[2] :
                 i \in 1..(factor * shape[1])}

\* Positions of a polygon edge: just below each centre and above the last.
Edges(centres) ==
    {c - 1 : c \in centres} \cup {c + 1 : c \in {d \in centres : \A k \in centres : k <= d}}

\* The rectangles that tell the pixel centres apart, and the polygon that
\* contains none of them.
Polygons(shape, factor) ==
    {r \in {Rect(x1, x2, y1, y2) :
                x1 \in Edges(CentresX(shape, factor)),
                x2 \in Edges(CentresX(shape, factor)),
                y1 \in Edges(CentresY(shape, factor)),
                y2 \in Edges(CentresY(shape, factor))} :
        r.x1 < r.x2 /\ r.y1 < r.y2}
    \cup {NoPolygon}

\* The polygon around the whole window, and the one that leaves out the
\* first native column.
WholeWindow(shape) ==
    Rect(-1, PixelSize * shape[2] + 1, -(PixelSize * shape[1]) - 1, 1)
WithoutFirstColumn(shape) ==
    Rect(PixelSize - 1, PixelSize * shape[2] + 1, -(PixelSize * shape[1]) - 1, 1)

\* calculate_ndvi_from_s3 from the SWIR alignment on, for the windows, the
\* factor and the polygon of the state: the grids and masks, then the
\* statistics or the except clause's placeholder.
CalculateIndices ==
    /\ pc = "indices"
    /\ LET low == GeometryMask(polygon, bands["blue"].shape, WindowTransform)
           out == Compute(bands, low)
       IN /\ grids' = IndexGrids(bands, upscale_factor, polygon)
          /\ low_res_mask' = low
          /\ calc_error' = out[1]
          /\ ndvi_stats' = out[2]
    /\ pc' = "indexed"
    /\ UNCHANGED <<config, request, window, search_outcome, items, best_item,
                   bands, result, error, response, img, upscale_factor, polygon,
                   overlay, datasets>>

\* What the index and the mask checks share: a request at the point where
\* the five windows have been read.
WindowsRead ==
    /\ mock_mode = FALSE
    /\ selection_mode = "least_cloud"
    /\ search_days = SearchDaysDefault
    /\ pc = "indices"
    /\ bbox = TRUE
    /\ date_range = <<>>
    /\ now = 0
    /\ start_date = Unbound
    /\ end_date = Unbound
    /\ default_days = Unbound
    /\ search_outcome = None
    /\ items = <<>>
    /\ best_item = NoScene
    /\ low_res_mask = {}
    /\ calc_error = None
    /\ ndvi_stats = NoStats
    /\ result = NoResult
    /\ error = None
    /\ response = NoResponse
    /\ img = NoImage
    /\ grids = NoGrids
    /\ overlay = NoOverlay
    /\ handles = {}
    /\ reads = NoReads

\* Windows with nodata in one band, every scene, every factor, and a polygon
\* around the whole window or all but its first column.
InitIndices ==
    /\ WindowsRead
    /\ upscale_factor \in 1..MaxUpscale
    /\ \E shape \in (1..MaxIndexRows) \X (1..MaxIndexCols) :
       \E swir_shape \in SwirShapes(shape),
          scene \in Scenes, masks \in OneBandMasks :
        /\ bands = SceneWindows(scene, shape, swir_shape, masks)
        /\ polygon \in {WholeWindow(shape), WithoutFirstColumn(shape)}

SpecIndices == InitIndices /\ [][CalculateIndices]_vars

\* No upsampling, the smallest even factor and the default factor.
GridFactors == {1, 2, UpscaleFactorDefault}

\* These factors and every polygon that tells pixel centres apart, over a
\* scene that differs from pixel to pixel.
InitGrids ==
    /\ WindowsRead
    /\ upscale_factor \in GridFactors
    /\ \E shape \in (1..MaxGridRows) \X (1..MaxGridCols), masks \in RedMasks :
        /\ bands = SceneWindows(<<[b \in BandNames |-> Level(b)], 1>>,
                                shape, shape, masks)
        /\ polygon \in Polygons(shape, upscale_factor)

SpecGrids == InitGrids /\ [][CalculateIndices]_vars

\* ------------------------------------------------------- band datasets

\* with rasterio.open(url) as src: the dataset of the band is open from here.
Acquire(h, b) == h \cup {b}

\* A with block that does not close its dataset.
ReleaseNone(h, b) == h

\* The with block is left, by its end or by an exception: the dataset closes.
Release(h, b) == h \ {b}

\* The band whose with block comes next, and the band read last.
NextBand == Bands[Cardinality(DOMAIN bands) + 1]
LastBand == Bands[Cardinality(DOMAIN bands)]

\* The except clause: the error is logged and _mock_ndvi() is returned.
Caught(e) ==
    /\ calc_error' = e
    /\ ndvi_stats' = MockNdvi
    /\ pc' = "build"

\* rasterio.open(<band>_url) returns the dataset of the next band.
OpenBand ==
    /\ pc = "bands"
    /\ handles' = Acquire(handles, NextBand)
    /\ pc' = "opened"
    /\ UNCHANGED <<config, request, window, search_outcome, items, best_item,
                   calc, result, error, response, img, upscale_factor, polygon,
                   grids, overlay, reads>>

\* rasterio.open(<band>_url) raises: no dataset was opened.
OpenRaises ==
    /\ pc = "bands"
    /\ Caught("RasterioIOError")
    /\ UNCHANGED <<config, request, window, search_outcome, items, best_item,
                   bands, low_res_mask, result, error, response, img, raster>>

\* src.read(1, window=window, masked=True) returns the window of the band:
\* the 10 m bands have the shape of the blue window, the SWIR window a
\* shape of its own.
ReadBand ==
    /\ pc = "opened"
    /\ LET b == NextBand
       IN /\ \E shape \in IF b = "blue" THEN WindowShapes
                          ELSE IF b = "swir" THEN SwirShapes(bands["blue"].shape)
                          ELSE {bands["blue"].shape} :
             \E mask \in FullMasks(shape) :
               bands' = [c \in DOMAIN bands \cup {b} |->
                           IF c = b THEN BandWindow(b, shape, mask) ELSE bands[c]]
          /\ reads' = [reads EXCEPT ![b] = @ + 1]
    /\ pc' = "read"
    /\ UNCHANGED <<config, request, window, search_outcome, items, best_item,
                   low_res_mask, calc_error, ndvi_stats, result, error, response,
                   img, upscale_factor, polygon, grids, overlay, handles>>

\* transform_bounds or from_bounds raises inside the with block, or read is
\* called and raises: the block is left through its __exit__ and the except
\* clause runs.
ReadRaises ==
    /\ pc = "opened"
    /\ \E called \in BOOLEAN :
         reads' = IF called THEN [reads EXCEPT ![NextBand] = @ + 1] ELSE reads
    /\ handles' = Release(handles, NextBand)
    /\ Caught("RasterioIOError")
    /\ UNCHANGED <<config, request, window, search_outcome, items, best_item,
                   bands, low_res_mask, result, error, response, img,
                   upscale_factor, polygon, grids, overlay>>

\* The rest of the with block and its end.  The SWIR block still holds the
\* resampling, whose division raises for a window without rows or columns;
\* after the last block the indices are calculated.
CloseBand ==
    /\ pc = "read"
    /\ handles' = Release(handles, LastBand)
    /\ IF LastBand = "swir" /\ SwirScaleRaises(bands["swir"])
       THEN Caught("ZeroDivisionError")
       ELSE /\ pc' = IF LastBand = Bands[Len(Bands)] THEN "indices" ELSE "bands"
            /\ UNCHANGED <<calc_error, ndvi_stats>>
    /\ UNCHANGED <<config, request, window, search_outcome, items, best_item,
                   bands, low_res_mask, result, error, response, img,
                   upscale_factor, polygon, grids, overlay, reads>>

\* One call of calculate_ndvi_from_s3 outside mock mode, at the first with
\* block, for a polygon around every window.
InitBands ==
    /\ mock_mode = FALSE
    /\ selection_mode = "least_cloud"
    /\ search_days = SearchDaysDefault
    /\ pc = "bands"
    /\ bbox = TRUE
    /\ date_range = <<>>
    /\ now = 0
    /\ start_date = Unbound
    /\ end_date = Unbound
    /\ default_days = Unbound
    /\ search_outcome = None
    /\ items = <<>>
    /\ best_item = NoScene
    /\ bands = <<>>
    /\ low_res_mask = {}
    /\ calc_error = None
    /\ ndvi_stats = NoStats
    /\ result = NoResult
    /\ error = None
    /\ response = NoResponse
    /\ img = NoImage
    /\ upscale_factor = UpscaleFactorDefault
    /\ polygon = WholeWindow(<<MaxRows, MaxCols>>)
    /\ grids = NoGrids
    /\ overlay = NoOverlay
    /\ handles = {}
    /\ reads = NoReads

NextBands ==
    \/ OpenBand
    \/ OpenRaises
    \/ ReadBand
    \/ ReadRaises
    \/ CloseBand
    \/ CalculateIndices

SpecBands == InitBands /\ [][NextBands]_vars

\* ---------------------------------------------- from the bands to the image

MaxReflectance == 3    \* largest pixel value of a band of the colour check

\* generate_index_image(<index>_masked, '<index>'): the upsampled and masked
\* grid of one of the four rendered indices is handed to the renderer.
HandToRenderer ==
    /\ pc = "indexed"
    /\ \E t \in IndexTypes :
         overlay' = Overlay(t, grids.high[t],
                            Uniform(grids.high[t].shape, Transparent), 0, None)
    /\ pc' = "overlay"
    /\ UNCHANGED <<config, request, window, search_outcome, items, best_item,
                   calc, result, error, response, img, upscale_factor, polygon,
                   grids, datasets>>

\* One-pixel windows without nodata, every band with every value up to
\* MaxReflectance, no upsampling, the polygon around the window.
InitColours ==
    /\ WindowsRead
    /\ upscale_factor = 1
    /\ polygon = WholeWindow(<<1, 1>>)
    /\ \E v \in [BandNames -> 0..MaxReflectance] :
         bands = [b \in BandNames |-> Grid(<<1, 1>>, {}, Uniform(<<1, 1>>, v[b]))]

NextColours ==
    \/ CalculateIndices
    \/ HandToRenderer
    \/ GenerateIndexImage

SpecColours == InitColours /\ [][NextColours]_vars

\* ------------------------------------------------------------------ claims

\* The cloud cover of a scene as the data model gives it: 100 when absent.
CloudCoverPct(x) == IF x.has_cloud THEN x.cloud ELSE 100

\* (a1, a2) <= (b1, b2) lexicographically.
LexLeq(a1, a2, b1, b2) == a1 < b1 \/ (a1 = b1 /\ a2 <= b2)

\* The selection step has run on a non-empty sequence of scenes.
Selected == pc = "calculate" /\ Len(items) >= 1

IsCandidate(x) == \E k \in 1..Len(items) : items[k] = x

\* C1: in least_cloud mode, and under any unrecognised mode string, the
\* selected scene is a candidate whose key (cloud_cover_pct, -timestamp) is
\* lexicographically <= the key of every candidate.
C1_LeastCloudMinimal ==
    (Selected /\ selection_mode \notin {"most_recent", "balanced"}) =>
        /\ IsCandidate(best_item)
        /\ \A i \in 1..Len(items) :
            LexLeq(CloudCoverPct(best_item), -best_item.datetime,
                   CloudCoverPct(items[i]), -items[i].datetime)

\* C1 witness: an unrecognised mode, three candidates, the first two tied on
\* cloud cover, and the more recent second one selected.
C1_Witness ==
    /\ Selected /\ selection_mode = "fastest" /\ Len(items) = 3
    /\ CloudCoverPct(items[1]) = CloudCoverPct(items[2])
    /\ items[1].datetime < items[2].datetime
    /\ best_item = items[2]

\* C2: in most_recent mode the selected scene is a candidate whose key
\* (-timestamp, cloud_cover_pct) is lexicographically <= the key of every
\* candidate: none is more recent, none as recent is clearer.
C2_MostRecentMinimal ==
    (Selected /\ selection_mode = "most_recent") =>
        /\ IsCandidate(best_item)
        /\ \A i \in 1..Len(items) :
            LexLeq(-best_item.datetime, CloudCoverPct(best_item),
                   -items[i].datetime, CloudCoverPct(items[i]))

\* C2 witness: most_recent mode, the two latest candidates share a timestamp
\* and the clearer one, which comes later in the list, is selected.
C2_Witness ==
    /\ Selected /\ selection_mode = "most_recent" /\ Len(items) = 3
    /\ items[1].datetime = items[3].datetime
    /\ items[2].datetime < items[1].datetime
    /\ CloudCoverPct(items[3]) < CloudCoverPct(items[1])
    /\ best_item = items[3]

\* C3: the balanced score does not decrease with cloud cover at a fixed
\* timestamp and does not increase with recency at a fixed cloud cover; so
\* the selected scene is never older than a candidate of equal cloud cover
\* and never cloudier than a candidate of equal timestamp.
C3_BalancedMonotone ==
    (Selected /\ selection_mode = "balanced") =>
        /\ \A i, j \in 1..Len(items) :
            /\ (items[i].datetime = items[j].datetime
                  /\ CloudCoverPct(items[i]) <= CloudCoverPct(items[j]))
                 => BalancedKey(items[i]) <= BalancedKey(items[j])
            /\ (CloudCoverPct(items[i]) = CloudCoverPct(items[j])
                  /\ items[i].datetime >= items[j].datetime)
                 => BalancedKey(items[i]) <= BalancedKey(items[j])
        /\ \A i \in 1..Len(items) :
            /\ CloudCoverPct(items[i]) = CloudCoverPct(best_item)
                 => items[i].datetime <= best_item.datetime
            /\ items[i].datetime = best_item.datetime
                 => CloudCoverPct(items[i]) >= CloudCoverPct(best_item)

\* C3 witness: balanced mode, two candidates of equal cloud cover, the more
\* recent one second in the list and selected.
C3_Witness ==
    /\ Selected /\ selection_mode = "balanced" /\ Len(items) >= 2
    /\ CloudCoverPct(items[1]) = CloudCoverPct(items[2])
    /\ items[1].datetime < items[2].datetime
    /\ best_item = items[2]

\* age_in_days of a scene at the current time, in seconds.
AgeSeconds(x) == now - x.datetime

\* C4 as stated: the selected scene minimises 0.6 * cloud - 0.4 * age_in_days
\* (here times 10 * 86400) over the candidates.
C4_MinimisesCloudMinusAge ==
    (Selected /\ selection_mode = "balanced") =>
        \A i \in 1..Len(items) :
            6 * 86400 * CloudCoverPct(best_item) - 4 * AgeSeconds(best_item)
                <= 6 * 86400 * CloudCoverPct(items[i]) - 4 * AgeSeconds(items[i])

\* C4 amended: the selected scene is a candidate that minimises
\* 0.6 * cloud + 0.4 * age_in_days (here times 10 * 86400): age raises the
\* score, recency lowers it.
C4_MinimisesCloudPlusAge ==
    (Selected /\ selection_mode = "balanced") =>
        /\ IsCandidate(best_item)
        /\ \A i \in 1..Len(items) :
            6 * 86400 * CloudCoverPct(best_item) + 4 * AgeSeconds(best_item)
                <= 6 * 86400 * CloudCoverPct(items[i]) + 4 * AgeSeconds(items[i])

\* C4 witness: balanced mode selects the second candidate, one point
\* cloudier than the first and more than a day and a half more recent.
C4_Witness ==
    /\ Selected /\ selection_mode = "balanced" /\ Len(items) >= 2
    /\ best_item = items[2]
    /\ CloudCoverPct(items[2]) = CloudCoverPct(items[1]) + 1
    /\ 2 * (items[2].datetime - items[1].datetime) > 3 * 86400

\* A date range is given and strptime rejects its first or its last part.
MalformedRange ==
    /\ date_range # <<>>
    /\ ~date_range[1].ok \/ ~date_range[Len(date_range)].ok

\* C5: a date range that fails to parse makes process_parcel_ndvi fall back
\* to the default window (now minus the configured days, through now) and go
\* on to the catalog search, with no exception.
C5_FallsBackToDefaultWindow ==
    (~mock_mode /\ bbox /\ MalformedRange /\ pc \notin {"idle", "process"}) =>
        /\ error = None
        /\ pc = "search" \/ search_outcome # None
        /\ end_date = now
        /\ start_date = now - search_days * 86400

\* The placeholder statistics: 0.68, 0.12, 0.35, 0.85 and 15000 pixels.
IsPlaceholder(st) ==
    /\ st.ndvi_mean = (68 * FixedPoint) \div 100
    /\ st.ndvi_std = (12 * FixedPoint) \div 100
    /\ st.ndvi_min = (35 * FixedPoint) \div 100
    /\ st.ndvi_max = (85 * FixedPoint) \div 100
    /\ st.pixels_count = 15000

\* C6 as stated: a request whose read/compute chain raised is never answered
\* with a status "success" payload that carries statistics.
C6_RaisedChainFailsRequest ==
    (pc = "done" /\ calc_error # None) =>
        ~(response.body.status = "success" /\ response.body.has_stats)

\* C6 amended: an exception in the read/compute chain is caught inside
\* calculate_ndvi_from_s3, which returns the placeholder statistics; the
\* request is answered 200 with a status "success" payload carrying them, and
\* no exception leaves process_parcel_ndvi.
C6_RaisedChainAnsweredWithPlaceholder ==
    (calc_error # None) =>
        /\ pc \in {"build", "respond", "done"}
        /\ IsPlaceholder(ndvi_stats)
        /\ error = None
        /\ pc \in {"respond", "done"} =>
            /\ result.status = "success"
            /\ result.has_stats
            /\ IsPlaceholder(result.stats)
        /\ pc = "done" => response = Response(200, result)

\* C6 witness: the read of a band raised and the request was answered 200.
C6_Witness ==
    /\ pc = "done"
    /\ calc_error = "RasterioIOError"
    /\ response.code = 200
    /\ response.body.status = "success"

\* C7: when the catalog search yields no scene, also because it raised,
\* process_parcel_ndvi returns the no-imagery error payload, selects no scene,
\* reads no band and raises nothing.
C7_NoImageryFound ==
    (search_outcome # None /\ items = <<>>) =>
        /\ pc \in {"respond", "done"}
        /\ error = None
        /\ result.status = "error"
        /\ result.message = "No Sentinel-2 imagery found"
        /\ ~result.has_stats
        /\ best_item.id = 0
        /\ bands = <<>>
        /\ calc_error = None
        /\ pc = "done" => response = Response(200, result)

\* C7 witness: the search raised and the request was answered with the
\* no-imagery payload.
C7_Witness ==
    /\ pc = "done"
    /\ search_outcome = "raised"
    /\ items = <<>>
    /\ response.code = 200
    /\ response.body.status = "error"

AllRead == DOMAIN bands = BandNames

ZeroSize(g) == g.shape[1] = 0 \/ g.shape[2] = 0

AllNodata(g) == ~ZeroSize(g) /\ g.mask = Pixels(g.shape)

IsZeroed(st) ==
    /\ st.ndvi_mean = 0 /\ st.ndvi_std = 0 /\ st.ndvi_min = 0
    /\ st.ndvi_max = 0 /\ st.pixels_count = 0

\* C8: a band window that is zero-size or entirely nodata, for any of the
\* five bands, is carried through to the zeroed statistics (count 0) without
\* raising and without the exception/fallback path.
C8_EmptyWindowCarriedThrough ==
    (AllRead /\ \E b \in BandNames : ZeroSize(bands[b]) \/ AllNodata(bands[b])) =>
        /\ calc_error = None
        /\ IsZeroed(ndvi_stats)

\* The statistics step is reached and no NDVI value is valid: every native
\* pixel is nodata in red or nir, or outside the polygon.
NoNdviValueLeft ==
    /\ AllRead
    /\ ~ZeroSize(bands["swir"])
    /\ Pixels(bands["red"].shape)
         \subseteq (bands["red"].mask \cup bands["nir"].mask \cup low_res_mask)

\* C9: when no NDVI value remains after masking, the statistics returned are
\* mean 0, std 0, min 0, max 0 and count 0, as a non-error outcome.
C9_ZeroedStatistics ==
    NoNdviValueLeft =>
        /\ calc_error = None
        /\ error = None
        /\ IsZeroed(ndvi_stats)
        /\ pc \in {"respond", "done"} =>
            /\ result.status = "success"
            /\ IsZeroed(result.stats)
        /\ pc = "done" => response = Response(200, result)

\* C9 witness: a 2 x 2 window without nodata whose pixels are all outside
\* the polygon, answered with count 0.
C9_Witness ==
    /\ pc = "done"
    /\ AllRead
    /\ bands["red"].shape = <<2, 2>>
    /\ bands["red"].mask = {} /\ bands["nir"].mask = {}
    /\ low_res_mask = Pixels(<<2, 2>>)
    /\ response.body.stats.pixels_count = 0
    /\ response.body.status = "success"

SmallerOf(a, b) == IF a <= b THEN a ELSE b

\* An overlay was rendered from an array with a dimension below 100.
Upscaled ==
    /\ pc = "rendered"
    /\ img.image = "png"
    /\ img.width < 100 \/ img.height < 100

\* C10 as stated: the factor is the smallest integer >= 2 that brings the
\* smaller dimension to at least 100, so the smaller output dimension is
\* at least 100.
C10_SmallestFactorReaching100 ==
    Upscaled =>
        /\ img.scale_factor >= 2
        /\ SmallerOf(img.width, img.height) * img.scale_factor >= 100
        /\ \A f \in 2..(img.scale_factor - 1) :
            SmallerOf(img.width, img.height) * f < 100
        /\ SmallerOf(img.new_width, img.new_height) >= 100

\* C10 amended: the factor is max(2, floor(100 / smaller dimension)): the
\* largest integer whose product with the smaller dimension does not exceed
\* 100, and 2 when that is below 2.  Both dimensions are multiplied by it; the
\* smaller output dimension is at least 68 and may stay below 100.
C10_LargestFactorWithin100 ==
    Upscaled =>
        LET m == SmallerOf(img.width, img.height)
            f == img.scale_factor
        IN /\ f >= 2
           /\ m * f <= 100 \/ f = 2
           /\ m * (f + 1) > 100
           /\ img.new_width = img.width * f
           /\ img.new_height = img.height * f
           /\ SmallerOf(img.new_width, img.new_height) >= 68

\* C10 witness: a 30 x 45 array is scaled by 3 to 90 x 135.
C10_Witness ==
    /\ Upscaled
    /\ img.width = 30 /\ img.height = 45
    /\ img.scale_factor = 3
    /\ img.new_width = 90 /\ img.new_height = 135

\* generate_index_image has returned an image.
OverlayDone == pc = "overlaid" /\ overlay.image # None

\* The values at which the ramp of an index type changes branch, in order.
Breakpoints(index_type) ==
    IF index_type \in {"ndvi", "evi", "savi"} THEN <<Tenths(3), Tenths(6)>>
    ELSE IF index_type = "ndwi" THEN <<0, Tenths(2), Tenths(4)>>
    ELSE <<0, Tenths(3), Tenths(5)>>

\* The formula of the branch that ends at breakpoint k, evaluated at val.
LowerBranch(index_type, k, val) ==
    IF index_type \in {"ndvi", "evi", "savi"} THEN VegetationBranch(k, val)
    ELSE IF index_type = "ndwi" THEN WaterBranch(k, val)
    ELSE MoistureBranch(k, val)

Abs(x) == IF x >= 0 THEN x ELSE -x

\* The rendered colour c of value bp is the lower branch's colour at bp, and
\* the colour one fixed-point step below bp is within one level of it.
ContinuousAt(index_type, k, bp, c) ==
    /\ LowerBranch(index_type, k, bp) = c
    /\ \A ch \in 1..4 : Abs(IndexColor(index_type, bp - 1)[ch] - c[ch]) <= 1

\* The two breakpoints where the lower branch ends on another colour than the
\* upper branch starts with.
Jumps(index_type, k) ==
    \/ index_type \in {"ndvi", "evi", "savi"} /\ k = 2
    \/ index_type = "ndmi" /\ k = 1

\* C11 as stated: every colour ramp is continuous at every breakpoint; the
\* colour of the lower branch at the breakpoint equals the colour rendered
\* for a pixel whose value is the breakpoint.
C11_ContinuousAtEveryBreakpoint ==
    OverlayDone =>
        \A p \in Pixels(overlay.array.shape) \ overlay.array.mask :
        \A k \in 1..Len(Breakpoints(overlay.index_type)) :
            overlay.array.data[p] = Breakpoints(overlay.index_type)[k] =>
                ContinuousAt(overlay.index_type, k, overlay.array.data[p],
                             overlay.rgba[p])

\* C11: the ramps are continuous at vegetation 0.3, water 0, 0.2 and 0.4 and
\* moisture 0.3 and 0.5.  At vegetation 0.6 the lower branch ends on green 255
\* and the upper one starts at green 100; at moisture 0 the lower branch ends
\* on blue 42 and the upper one starts at blue 0.
C11_ContinuousExceptTwoJumps ==
    OverlayDone =>
        \A p \in Pixels(overlay.array.shape) \ overlay.array.mask :
        \A k \in 1..Len(Breakpoints(overlay.index_type)) :
            LET t == overlay.index_type
                bp == Breakpoints(t)[k]
            IN overlay.array.data[p] = bp =>
                 IF ~Jumps(t, k) THEN ContinuousAt(t, k, bp, overlay.rgba[p])
                 ELSE IF t = "ndmi"
                 THEN /\ LowerBranch(t, k, bp) = <<255, 255, 42, 255>>
                      /\ overlay.rgba[p] = <<255, 255, 0, 255>>
                 ELSE /\ LowerBranch(t, k, bp) = <<0, 255, 0, 255>>
                      /\ overlay.rgba[p] = <<0, 100, 0, 255>>

\* An image with a valid pixel on a continuous breakpoint and one on a jump.
C11_Witness ==
    /\ OverlayDone
    /\ overlay.index_type = "ndmi"
    /\ \E p, q \in Pixels(overlay.array.shape) \ overlay.array.mask :
        /\ overlay.array.data[p] = Tenths(3)
        /\ overlay.array.data[q] = 0

\* The pixels of the resized image that copy pixel p of the RGBA array:
\* the first and the last of its block.
BlockCorners(o, p) ==
    {<<(p[1] - 1) * o.scale_factor + 1, (p[2] - 1) * o.scale_factor + 1>>,
     <<p[1] * o.scale_factor, p[2] * o.scale_factor>>}

\* C12: in a rendered overlay of ndvi, ndwi, ndmi or evi a pixel has alpha 0
\* (and RGB 0) exactly when it is masked, and every valid pixel has alpha
\* 255, in the RGBA array and in the resized image.
C12_TransparentIffMasked ==
    (OverlayDone /\ overlay.index_type \in {"ndvi", "ndwi", "ndmi", "evi"}) =>
        \A p \in Pixels(overlay.array.shape) :
        \A q \in BlockCorners(overlay, p) :
            LET c == ResizedPixel(overlay, q[1], q[2])
            IN /\ c = overlay.rgba[p]
               /\ (c[4] = 0) <=> (p \in overlay.array.mask)
               /\ p \in overlay.array.mask => c = <<0, 0, 0, 0>>
               /\ p \notin overlay.array.mask => c[4] = 255

\* An overlay with a masked pixel next to a valid one.
C12_Witness ==
    /\ OverlayDone
    /\ overlay.index_type \in {"ndvi", "ndwi", "ndmi", "evi"}
    /\ overlay.array.mask # {}
    /\ overlay.array.mask # Pixels(overlay.array.shape)
    /\ overlay.scale_factor > 1

\* calculate_ndvi_from_s3 has computed the index grids.
Indexed == pc = "indexed"

\* C13: every one of the five indices has eps added to its denominator, and
\* no index evaluation divides by exactly zero.
C13_EpsilonInEveryDenominator ==
    Indexed =>
        \A name \in {"ndvi", "ndwi", "ndmi", "evi", "savi"} :
        \A p \in Pixels(bands["red"].shape) :
            LET d == IndexDen(name, PixelValues(bands, grids.swir, p))
            IN d.eps /\ ~(d.twice = 0 /\ ~d.eps)

\* The bands an index is computed from.
InputBands(name) ==
    CASE name = "ndvi" -> {"nir", "red"}
      [] name = "ndwi" -> {"green", "nir"}
      [] name = "ndmi" -> {"nir", "swir"}
      [] name = "evi" -> {"nir", "red", "blue"}
      [] OTHER -> {"nir", "red"}

\* The grid of a band as the index formulas see it: SWIR after resampling.
InputGrid(band) == IF band = "swir" THEN grids.swir ELSE bands[band]

\* The native pixels where a band the index is computed from is nodata.
SourceNodata(name) == UNION {InputGrid(band).mask : band \in InputBands(name)}

\* The centre of pixel p of the grid refined by the factor is outside the
\* polygon: the centre of column j is at (2j - 1) / 2 pixel sizes from the
\* left edge, the centre of row i as far below the upper edge.
OutsidePolygon(p, factor) ==
    LET size == PixelSize \div factor
        x == ((2 * p[2] - 1) * size) \div 2
        y == -(((2 * p[1] - 1) * size) \div 2)
    IN ~(polygon.x1 < x /\ x < polygon.x2 /\ polygon.y1 < y /\ y < polygon.y2)

NativeShape == bands["red"].shape
HighShape == <<upscale_factor * NativeShape[1], upscale_factor * NativeShape[2]>>

\* C14: the final mask of every index is (nodata of its source bands) OR
\* (pixel centre outside the polygon): the mask of each rendered grid is the
\* F-fold replicated nodata mask or-ed with the polygon rasterised on the
\* upsampled grid, and the mask used for the statistics is the native nodata
\* mask or-ed with the polygon rasterised on the native grid.
C14_FinalMaskIsNodataOrOutside ==
    Indexed =>
        /\ \A n \in {"ndvi", "ndwi", "ndmi", "evi"} :
              grids.high[n].mask =
                {p \in Pixels(HighShape) :
                    \/ NativeOf(p, upscale_factor) \in SourceNodata(n)
                    \/ OutsidePolygon(p, upscale_factor)}
        /\ \A n \in {"ndvi", "ndwi", "ndmi", "evi", "savi"} :
              grids.low[n] =
                {p \in Pixels(NativeShape) :
                    p \in SourceNodata(n) \/ OutsidePolygon(p, 1)}

\* C15: before polygon masking, every index grid is invalid exactly at the
\* pixels where a band it is computed from is invalid: its mask is the union
\* of the masks of its input bands.
C15_MaskIsUnionOfInputMasks ==
    Indexed =>
        \A n \in {"ndvi", "ndwi", "ndmi", "evi", "savi"} :
            grids.index[n].mask = SourceNodata(n)

\* The extent of pixel p along x and y under transform t:
\* <<left, right, top, bottom>>.
PixelBox(t, p) ==
    <<t.c + t.a * (p[2] - 1), t.c + t.a * p[2],
      t.f + t.e * (p[1] - 1), t.f + t.e * p[1]>>

\* Box a lies inside box b.
BoxInside(a, b) == b[1] <= a[1] /\ a[2] <= b[2] /\ b[3] >= a[3] /\ a[4] >= b[4]

\* C16: for factor F and a native grid of shape (R, C) every upsampled grid
\* has shape (F*R, F*C), its pixel (i, j) (from 0) holds the value of native
\* pixel (i div F, j div F), its transform keeps the origin and divides the
\* pixel sizes by F, so that each upsampled pixel lies inside the native
\* pixel it repeats and both grids cover the same extent.
C16_UpsampledByBlockReplication ==
    Indexed =>
        LET F == upscale_factor
            R == NativeShape[1]
            C == NativeShape[2]
            t == grids.new_transform
        IN /\ grids.new_shape = <<F * R, F * C>>
           /\ t.c = WindowTransform.c /\ t.f = WindowTransform.f
           /\ F * t.a = WindowTransform.a /\ F * t.e = WindowTransform.e
           /\ PixelBox(t, <<F * R, F * C>>)[2] = PixelBox(WindowTransform, <<R, C>>)[2]
           /\ PixelBox(t, <<F * R, F * C>>)[4] = PixelBox(WindowTransform, <<R, C>>)[4]
           /\ \A n \in {"ndvi", "ndwi", "ndmi", "evi"} :
                /\ grids.high[n].shape = <<F * R, F * C>>
                /\ \A i \in 0..(F * R - 1), j \in 0..(F * C - 1) :
                     /\ grids.high[n].data[<<i + 1, j + 1>>] =
                            grids.index[n].data[<<(i \div F) + 1, (j \div F) + 1>>]
                     /\ BoxInside(PixelBox(t, <<i + 1, j + 1>>),
                                  PixelBox(WindowTransform,
                                           <<(i \div F) + 1, (j \div F) + 1>>))

\* A grid of several columns whose NDVI differs from pixel to pixel,
\* upsampled by a factor of at least 2.
C16_Witness ==
    /\ Indexed
    /\ upscale_factor >= 2
    /\ NativeShape[2] >= 2
    /\ grids.index["ndvi"].data[<<1, 1>>] # grids.index["ndvi"].data[<<1, 2>>]
    /\ grids.new_shape[2] = upscale_factor * NativeShape[2]

\* The pixels of the upsampled grid that repeat native pixel q.
Block(q) == {p \in Pixels(HighShape) : NativeOf(p, upscale_factor) = q}

\* The native mask agrees with the upsampled mask on native pixel q when
\* the block of q is all outside or all inside the polygon.
AgreesOnUniformBlock(q) ==
    /\ Block(q) \subseteq grids.polygon_mask => q \in low_res_mask
    /\ Block(q) \cap grids.polygon_mask = {} => q \notin low_res_mask

\* C17 as stated: for every factor, a native pixel whose block of upsampled
\* pixels is classified uniformly by the high-resolution polygon mask gets
\* the same classification from the low-resolution polygon mask.
C17_UniformBlocksAgree ==
    Indexed => \A q \in Pixels(NativeShape) : AgreesOnUniformBlock(q)

\* The central pixel of the block of q, for an odd factor.
BlockCentre(q) ==
    <<upscale_factor * (q[1] - 1) + (upscale_factor + 1) \div 2,
      upscale_factor * (q[2] - 1) + (upscale_factor + 1) \div 2>>

\* C17: for every odd factor the low-resolution polygon mask classifies a
\* native pixel as the high-resolution mask classifies the central pixel of
\* its block, hence it agrees on every uniformly classified block.
C17_OddFactorAgrees ==
    (Indexed /\ upscale_factor % 2 = 1) =>
        \A q \in Pixels(NativeShape) :
            /\ q \in low_res_mask <=> BlockCentre(q) \in grids.polygon_mask
            /\ AgreesOnUniformBlock(q)

\* The default factor with a block inside, a block outside and a mixed one
\* whose native pixel is outside.
C17_Witness ==
    /\ Indexed
    /\ upscale_factor = 3
    /\ \E q, r, m \in Pixels(NativeShape) :
        /\ Block(q) \cap grids.polygon_mask = {} /\ q \notin low_res_mask
        /\ Block(r) \subseteq grids.polygon_mask /\ r \in low_res_mask
        /\ Block(m) \cap grids.polygon_mask # {}
        /\ ~(Block(m) \subseteq grids.polygon_mask)
        /\ m \in low_res_mask

\* No band window has nodata, RED and NIR are uniform, and the polygon
\* contains the centre of every native pixel.
UniformScene ==
    /\ \A b \in BandNames : bands[b].mask = {}
    /\ \A p \in Pixels(NativeShape) :
         /\ bands["red"].data[p] = bands["red"].data[<<1, 1>>]
         /\ bands["nir"].data[p] = bands["nir"].data[<<1, 1>>]
    /\ \A p \in Pixels(NativeShape) : ~OutsidePolygon(p, 1)

\* (n - r) / (n + r + eps) in fixed point.
UniformNdvi ==
    LET r == bands["red"].data[<<1, 1>>]
        n == bands["nir"].data[<<1, 1>>]
    IN IF n + r = 0 THEN 0 ELSE ((n - r) * FixedPoint) \div (n + r)

\* C18: for a scene without nodata whose RED and NIR are uniform over an
\* R x C window and a polygon that contains every native pixel centre, the
\* returned statistics have pixels_count = R * C whatever the upscale factor,
\* ndvi_min = ndvi_max = ndvi_mean = (n - r) / (n + r + eps) and ndvi_std = 0.
C18_UniformSceneStatistics ==
    (Indexed /\ UniformScene) =>
        /\ ndvi_stats.pixels_count = NativeShape[1] * NativeShape[2]
        /\ ndvi_stats.ndvi_mean = UniformNdvi
        /\ ndvi_stats.ndvi_min = UniformNdvi
        /\ ndvi_stats.ndvi_max = UniformNdvi
        /\ ndvi_stats.ndvi_std = 0

\* The date-range block of a request with a geometry has run.
RangeResolved == ~mock_mode /\ bbox /\ pc \notin {"idle", "process"}

\* C19: a date range holding one well-formed date resolves to start = that
\* date and end = the current time of the call; a range holding two
\* well-formed dates resolves to start = the first and end = the second.
C19_DateRangeResolved ==
    RangeResolved =>
        /\ (Len(date_range) = 1 /\ date_range[1].ok) =>
              /\ start_date = date_range[1].day * SecondsPerDay
              /\ end_date = now
        /\ (Len(date_range) = 2 /\ date_range[1].ok /\ date_range[2].ok) =>
              /\ start_date = date_range[1].day * SecondsPerDay
              /\ end_date = date_range[2].day * SecondsPerDay

\* A single date resolved at a later time of the call, about to be searched.
C19_Witness ==
    /\ RangeResolved
    /\ pc = "search"
    /\ Len(date_range) = 1 /\ date_range[1].ok
    /\ start_date = SecondsPerDay
    /\ end_date = now /\ now > start_date

\* Source index s (from 1) of n_in is nearest to the position at which zoom
\* samples output index o of n_out: (o - 1) * (n_in - 1) / (n_out - 1).
NearestSource(s, o, n_in, n_out) ==
    IF n_out <= 1 THEN s = 1
    ELSE 2 * Abs((s - 1) * (n_out - 1) - (o - 1) * (n_in - 1)) <= n_out - 1

\* The value the SWIR window contributes at source pixel s: nodata is
\* filled with 0 before resampling.
SwirSource(s) == IF s \in bands["swir"].mask THEN 0 ELSE bands["swir"].data[s]

\* C20: the resampled SWIR grid has the shape of the RED window, each of its
\* pixels holds the value of the nearest source SWIR pixel (for a window of
\* twice the size: of the source pixel it lies in), and its mask is the mask
\* of the RED window.
C20_SwirResampledOntoRed ==
    Indexed =>
        LET src == bands["swir"].shape
            dst == bands["red"].shape
        IN /\ grids.swir.shape = dst
           /\ grids.swir.mask = bands["red"].mask
           /\ \A p \in Pixels(dst) :
                /\ \E s \in Pixels(src) :
                     /\ NearestSource(s[1], p[1], src[1], dst[1])
                     /\ NearestSource(s[2], p[2], src[2], dst[2])
                     /\ grids.swir.data[p] = SwirSource(s)
                /\ (dst[1] = 2 * src[1] /\ dst[2] = 2 * src[2]) =>
                     grids.swir.data[p] =
                        SwirSource(<<((p[1] - 1) \div 2) + 1, ((p[2] - 1) \div 2) + 1>>)

\* A RED window of twice the size of a SWIR window whose two columns differ:
\* the resampled row reads source columns 1, 1, 2, 2.
C20_Witness ==
    /\ Indexed
    /\ bands["red"].shape = <<2, 4>>
    /\ bands["swir"].shape = <<1, 2>>
    /\ bands["swir"].mask = {}
    /\ bands["swir"].data[<<1, 1>>] # bands["swir"].data[<<1, 2>>]
    /\ \A i \in 1..2 :
         /\ grids.swir.data[<<i, 1>>] = bands["swir"].data[<<1, 1>>]
         /\ grids.swir.data[<<i, 2>>] = bands["swir"].data[<<1, 1>>]
         /\ grids.swir.data[<<i, 3>>] = bands["swir"].data[<<1, 2>>]
         /\ grids.swir.data[<<i, 4>>] = bands["swir"].data[<<1, 2>>]

\* A dataset is opened only while no dataset is open.
OpensAlone == handles' # handles /\ handles \subseteq handles' => handles = {}

\* C21: during a call at most one band dataset is open; a band's dataset is
\* opened while none is open, read once and closed before the next one is
\* opened; it is closed also when its read raises; and the indices are
\* calculated only after each of the five bands has been read once and no
\* dataset is open.
C21_OneHandleAtATime ==
    /\ [](/\ Cardinality(handles) <= 1
          /\ \A b \in BandNames : reads[b] <= 1
          /\ pc \in {"bands", "build", "indices", "indexed"} => handles = {}
          /\ pc \in {"opened", "read"} =>
                handles = {Bands[Cardinality({b \in BandNames : reads[b] = 1})
                                 + (IF pc = "opened" THEN 1 ELSE 0)]}
          /\ pc \in {"indices", "indexed"} =>
                /\ DOMAIN bands = BandNames
                /\ \A b \in BandNames : reads[b] = 1)
    /\ [][OpensAlone]_vars

\* The four 10 m bands were read and released and the read of the SWIR band
\* raised: the call is over and no dataset is open.
C21_Witness ==
    /\ pc = "build"
    /\ calc_error = "RasterioIOError"
    /\ DOMAIN bands = BandNames \ {"swir"}
    /\ \A b \in BandNames : reads[b] = 1
    /\ handles = {}

\* A scene has been selected from the search result of the request.
SceneSelected == ~mock_mode /\ best_item # NoScene /\ items # <<>>

\* The request was answered with the payload built around the selected scene.
SceneReported ==
    /\ SceneSelected
    /\ pc = "done"
    /\ response.code = 200
    /\ response.body.status = "success"

\* C22: a scene without a cloud-cover value counts as cloud cover 100 in the
\* selection key of every mode (the selected scene is minimal when the value
\* is read as 100) and in the cloud_cover the response reports for it.
C22_MissingCloudCoverIs100 ==
    /\ SceneSelected =>
          \A i \in 1..Len(items) :
              CASE selection_mode = "most_recent" ->
                     LexLeq(-best_item.datetime, CloudCoverPct(best_item),
                            -items[i].datetime, CloudCoverPct(items[i]))
                [] selection_mode = "balanced" ->
                     items[i].datetime = best_item.datetime =>
                         CloudCoverPct(best_item) <= CloudCoverPct(items[i])
                [] OTHER ->
                     LexLeq(CloudCoverPct(best_item), -best_item.datetime,
                            CloudCoverPct(items[i]), -items[i].datetime)
    /\ SceneReported =>
          response.body.cloud_cover = CloudCoverPct(best_item)

\* C23: for every valid value of a rendered index, values outside [-1, 1]
\* included, each of the four channel values its colour ramp computes lies
\* in 0..255.
C23_ChannelsWithinByte ==
    pc = "overlaid" =>
        \A p \in Pixels(overlay.array.shape) \ overlay.array.mask :
            \A k \in 1..4 :
                IndexColor(overlay.index_type, overlay.array.data[p])[k] \in 0..255

====
